---- MODULE Spec2Model ----
(***************************************************************************)
(* Hierarchical access resolution of the ekko API: the structure tree      *)
(* (StructuresService over a TypeORM tree repository), the cache-manager   *)
(* cache in front of it, the users table and canAccessUser, and the        *)
(* permission grants of PermissionsService.                                *)
(*                                                                         *)
(* The repositories are modelled as plain tables: save() upserts a row,    *)
(* remove() deletes it, and the tree queries findDescendants/findAncestors *)
(* are the transitive closure of the stored parentId column, the entity    *)
(* itself included, as TypeORM's closure-table queries return it.  The     *)
(* service code performs no check of its own, so none is modelled.         *)
(* Cache values are snapshots taken at the time of set(); entries live for *)
(* the one-hour ttl of the cache module and do not expire within a run.    *)
(* Every handler is one atomic action, except in the specifications of     *)
(* concurrent calls, where update and findAll take one step per awaited    *)
(* store or cache operation and the steps of the calls in flight           *)
(* interleave as the event loop allows.                                    *)
(***************************************************************************)
EXTENDS Integers, FiniteSets, Sequences, TLC

\* Bounds of the model: how many structure, user and permission ids are
\* ever generated (ids are uuids in the code and are never reused).
MaxStructures == 3
MaxUsers == 2
MaxPerms == 1
\* Bound on the cache entries that the read endpoints may fill.
MaxCached == 2
\* Bound on the handler calls that are in flight at the same time.
MaxCalls == 2
\* Bound on the structures created while calls of the structures service
\* run concurrently.
MaxConcStructures == 2

\* null / undefined of a nullable id column
Null == 0

\* every structure id the model generates
SIds == 1..MaxStructures

\* UserRole values that the access code distinguishes
Roles == {"admin", "user"}

\* email addresses: a created user gets the address numbered like its id,
\* and one more address is free to change to
Emails == 1..(MaxUsers + 1)

VARIABLES
    structures,   \* structures table: stored id -> parentId (Null for a root)
    nextSid,      \* next structure id the database generates
    users,        \* users table: stored id -> [structureId, role, email]
    nextUid,      \* next user id the database generates
    permissions,  \* permissions table: stored id -> [userId, structureId]
    nextPid,      \* next permission id the database generates
    cache,        \* cache-manager store: key -> value
    last,         \* the call that completed last, its arguments and outcome
    calls         \* handler calls in flight between two awaits, by slot

vars ==
    <<structures, nextSid, users, nextUid, permissions, nextPid, cache, last,
      calls>>

----------------------------------------------------------------------------
\* Cache keys, as the template strings of the code build them.

KAll == <<"all_structures">>
KStructure(id) == <<"structure_", id>>
KDesc(id) == <<"structure_descendants_", id>>
KAnc(id) == <<"structure_ancestors_", id>>
KAcc(userId, structureId) == <<"user_accessible_structures_", userId, structureId>>
KUserPerms(userId) == <<"user_permissions_", userId>>
KUser(id) == <<"user_", id>>
KUserEmail(email) == <<"user_email_", email>>
KUsersAccessible(id) == <<"users_accessible_", id>>
KAccess(currentUserId, targetUserId) == <<"access_", currentUserId, targetUserId>>

\* cacheManager.set(key, value)
CacheSet(c, k, v) == [x \in (DOMAIN c) \cup {k} |-> IF x = k THEN v ELSE c[x]]

\* cacheManager.del(key)
CacheDel(c, k) == [x \in (DOMAIN c) \ {k} |-> c[x]]

\* cacheManager.get(key) found an entry
CacheHas(c, k) == k \in DOMAIN c

EmptyCache == [x \in {} |-> {}]

\* a read endpoint is explored while it leaves the cache as it is (a hit or
\* an error) or fills it to at most MaxCached entries
CacheRoom(c) == c = cache \/ Cardinality(DOMAIN c) <= MaxCached

----------------------------------------------------------------------------
\* The tree repository.

Stored == DOMAIN structures

\* ids the database has generated so far (stored or removed since)
Allocated == 1..(nextSid - 1)

RECURSIVE UpFrom(_, _, _)
UpFrom(tbl, x, seen) ==
    IF x \notin DOMAIN tbl THEN {}
    ELSE LET p == tbl[x] IN
         IF p = Null \/ p \in seen THEN {}
         ELSE {p} \cup UpFrom(tbl, p, seen \cup {p})

\* every id reached from x by following parentId one or more times in tbl
Up(tbl, x) == UpFrom(tbl, x, {})

\* TreeRepository.findDescendants(entity): the entity and all rows below it
RepoFindDescendants(id) == {x \in Stored : x = id \/ id \in Up(structures, x)}

\* TreeRepository.findAncestors(entity): the entity and all rows above it
RepoFindAncestors(id) == {x \in Stored : x = id \/ x \in Up(structures, id)}

\* repository.save(structure): insert or update the row
RepoSave(id, parentId) ==
    [x \in Stored \cup {id} |-> IF x = id THEN parentId ELSE structures[x]]

\* repository.remove(structure): delete the row
RepoRemove(id) == [x \in Stored \ {id} |-> structures[x]]

----------------------------------------------------------------------------
\* StructuresService reads, as functions of the cache they start from.

\* findOne(id): the cached structure if any, else the stored row (and cache it)
FindOne(c, id) ==
    IF CacheHas(c, KStructure(id))
    THEN [ok |-> TRUE, val |-> c[KStructure(id)], cache |-> c]
    ELSE IF id \in Stored
    THEN [ok |-> TRUE, val |-> structures[id],
          cache |-> CacheSet(c, KStructure(id), structures[id])]
    ELSE [ok |-> FALSE, val |-> Null, cache |-> c]

\* findDescendants(id)
FindDescendants(c, id) ==
    IF CacheHas(c, KDesc(id))
    THEN [ok |-> TRUE, val |-> c[KDesc(id)], cache |-> c, hit |-> TRUE]
    ELSE LET f == FindOne(c, id) IN
         IF ~f.ok THEN [ok |-> FALSE, val |-> {}, cache |-> c, hit |-> FALSE]
         ELSE [ok |-> TRUE, val |-> RepoFindDescendants(id),
               cache |-> CacheSet(f.cache, KDesc(id), RepoFindDescendants(id)),
               hit |-> FALSE]

\* findAncestors(id)
FindAncestors(c, id) ==
    IF CacheHas(c, KAnc(id))
    THEN [ok |-> TRUE, val |-> c[KAnc(id)], cache |-> c, hit |-> TRUE]
    ELSE LET f == FindOne(c, id) IN
         IF ~f.ok THEN [ok |-> FALSE, val |-> {}, cache |-> c, hit |-> FALSE]
         ELSE [ok |-> TRUE, val |-> RepoFindAncestors(id),
               cache |-> CacheSet(f.cache, KAnc(id), RepoFindAncestors(id)),
               hit |-> FALSE]

\* a cache test that takes an empty cached list for a miss
FindUserAccessibleStructuresNonEmpty(c, userId, userStructureId) ==
    IF CacheHas(c, KAcc(userId, userStructureId))
       /\ c[KAcc(userId, userStructureId)] # {}
    THEN [ok |-> TRUE, val |-> c[KAcc(userId, userStructureId)], cache |-> c,
          hit |-> TRUE]
    ELSE LET f == FindOne(c, userStructureId) IN
         IF ~f.ok THEN [ok |-> FALSE, val |-> {}, cache |-> c, hit |-> FALSE]
         ELSE [ok |-> TRUE, val |-> RepoFindDescendants(userStructureId),
               cache |-> CacheSet(f.cache, KAcc(userId, userStructureId),
                                  RepoFindDescendants(userStructureId)),
               hit |-> FALSE]

\* findUserAccessibleStructures(userId, userStructureId): an empty cached
\* list is an array, hence truthy, and is returned like any other
FindUserAccessibleStructures(c, userId, userStructureId) ==
    IF CacheHas(c, KAcc(userId, userStructureId))
    THEN [ok |-> TRUE, val |-> c[KAcc(userId, userStructureId)], cache |-> c,
          hit |-> TRUE]
    ELSE LET f == FindOne(c, userStructureId) IN
         IF ~f.ok THEN [ok |-> FALSE, val |-> {}, cache |-> c, hit |-> FALSE]
         ELSE [ok |-> TRUE, val |-> RepoFindDescendants(userStructureId),
               cache |-> CacheSet(f.cache, KAcc(userId, userStructureId),
                                  RepoFindDescendants(userStructureId)),
               hit |-> FALSE]

\* a clearing that deletes nothing
ClearStructureCacheNothing(c) == c

\* clearStructureCache()
ClearStructureCache(c) == CacheDel(c, KAll)

----------------------------------------------------------------------------
\* The record of the last completed call.

Call(op, a, b, outcome, set, flag, hit) ==
    [op |-> op, a |-> a, b |-> b, outcome |-> outcome, set |-> set,
     flag |-> flag, hit |-> hit]

\* a slot with no call in flight
Idle == [op |-> "none", id |-> Null, parentId |-> Null, pc |-> "idle", snap |-> {}]

Init ==
    /\ calls = [k \in 1..MaxCalls |-> Idle]
    /\ structures = [x \in {} |-> Null]
    /\ nextSid = 1
    /\ users = [x \in {} |-> [structureId |-> Null, role |-> "user", email |-> Null]]
    /\ nextUid = 1
    /\ permissions = [x \in {} |-> [userId |-> Null, structureId |-> Null]]
    /\ nextPid = 1
    /\ cache = EmptyCache
    /\ last = Call("init", Null, Null, "ok", {}, FALSE, FALSE)

----------------------------------------------------------------------------
\* StructuresService writes.

\* create(dto): the database generates the id; dto.parentId is taken as sent
Create(parentId) ==
    /\ nextSid <= MaxStructures
    /\ structures' = RepoSave(nextSid, parentId)
    /\ nextSid' = nextSid + 1
    /\ cache' = ClearStructureCache(cache)
    /\ last' = Call("create", nextSid, parentId, "ok", {}, FALSE, FALSE)
    /\ UNCHANGED <<users, nextUid, permissions, nextPid, calls>>

\* update(id, dto) with dto.parentId present: findOne, Object.assign, save
Update(id, parentId) ==
    LET f == FindOne(cache, id) IN
    /\ IF f.ok
       THEN /\ structures' = RepoSave(id, parentId)
            /\ cache' = ClearStructureCache(f.cache)
            /\ last' = Call("update", id, parentId, "ok", {}, FALSE, FALSE)
       ELSE /\ UNCHANGED <<structures, cache>>
            /\ last' = Call("update", id, parentId, "NotFound", {}, FALSE, FALSE)
    /\ UNCHANGED <<nextSid, users, nextUid, permissions, nextPid, calls>>

\* update(id, dto) with no parentId in the dto (a rename): the structure that
\* findOne returned, cached or not, is saved back as it is
Rename(id) ==
    LET f == FindOne(cache, id) IN
    /\ IF f.ok
       THEN /\ structures' = RepoSave(id, f.val)
            /\ cache' = ClearStructureCache(f.cache)
            /\ last' = Call("rename", id, f.val, "ok", {}, FALSE, FALSE)
       ELSE /\ UNCHANGED <<structures, cache>>
            /\ last' = Call("rename", id, Null, "NotFound", {}, FALSE, FALSE)
    /\ UNCHANGED <<nextSid, users, nextUid, permissions, nextPid, calls>>

\* remove(id): findOne, repository.remove
Remove(id) ==
    LET f == FindOne(cache, id) IN
    /\ IF f.ok
       THEN /\ structures' = RepoRemove(id)
            /\ cache' = ClearStructureCache(f.cache)
            /\ last' = Call("remove", id, Null, "ok", {}, FALSE, FALSE)
       ELSE /\ UNCHANGED <<structures, cache>>
            /\ last' = Call("remove", id, Null, "NotFound", {}, FALSE, FALSE)
    /\ UNCHANGED <<nextSid, users, nextUid, permissions, nextPid, calls>>

\* The read endpoints of the structures controller.
ReadOne(id) ==
    LET r == FindOne(cache, id) IN
    /\ CacheRoom(r.cache)
    /\ cache' = r.cache
    /\ last' = Call("findOne", id, Null,
                    IF r.ok THEN "ok" ELSE "NotFound",
                    IF r.ok THEN {r.val} ELSE {}, FALSE,
                    CacheHas(cache, KStructure(id)))
    /\ UNCHANGED <<structures, nextSid, users, nextUid, permissions, nextPid, calls>>

ReadDescendants(id) ==
    LET r == FindDescendants(cache, id) IN
    /\ CacheRoom(r.cache)
    /\ cache' = r.cache
    /\ last' = Call("findDescendants", id, Null,
                    IF r.ok THEN "ok" ELSE "NotFound", r.val, FALSE, r.hit)
    /\ UNCHANGED <<structures, nextSid, users, nextUid, permissions, nextPid, calls>>

ReadAncestors(id) ==
    LET r == FindAncestors(cache, id) IN
    /\ CacheRoom(r.cache)
    /\ cache' = r.cache
    /\ last' = Call("findAncestors", id, Null,
                    IF r.ok THEN "ok" ELSE "NotFound", r.val, FALSE, r.hit)
    /\ UNCHANGED <<structures, nextSid, users, nextUid, permissions, nextPid, calls>>

----------------------------------------------------------------------------
\* Concurrent calls of the structures service.  A handler runs until its
\* next await; between two awaits the steps of other calls may run.  No
\* handler takes a lock or opens a transaction.

\* no call is in flight
AllIdle == \A k \in 1..MaxCalls : calls[k].pc = "idle"

\* k is the slot that a starting call takes
FreeSlot(k) ==
    /\ calls[k].pc = "idle"
    /\ \A j \in 1..MaxCalls : calls[j].pc = "idle" => k <= j

\* repository.findTrees(): the roots and, nested below them, their
\* descendants, as pairs of id and parentId
FindTrees ==
    {<<x, structures[x]>> :
        x \in {y \in Stored :
                  \/ structures[y] = Null
                  \/ \E r \in Up(structures, y) :
                        r \in Stored /\ structures[r] = Null}}

\* findAll() as a function of the cache it starts from: the cached forest
\* if any, else the forest of the store (and cache it)
FindAllFrom(c) ==
    IF CacheHas(c, KAll)
    THEN [val |-> c[KAll], cache |-> c, hit |-> TRUE]
    ELSE [val |-> FindTrees, cache |-> CacheSet(c, KAll, FindTrees),
          hit |-> FALSE]

\* findAll() with no other call in flight
ReadAll ==
    LET r == FindAllFrom(cache) IN
    /\ cache' = r.cache
    /\ last' = Call("findAll", Null, Null, "ok", r.val, FALSE, r.hit)
    /\ UNCHANGED <<structures, nextSid, users, nextUid, permissions, nextPid, calls>>

\* update(id, dto), first await: findOne(id)
UpdateFindOne(id, parentId) ==
    LET f == FindOne(cache, id) IN
    /\ \E k \in 1..MaxCalls :
          /\ FreeSlot(k)
          /\ IF f.ok
             THEN /\ calls' = [calls EXCEPT ![k] =
                                  [op |-> "update", id |-> id,
                                   parentId |-> parentId, pc |-> "save",
                                   snap |-> {}]]
                  /\ cache' = f.cache
                  /\ UNCHANGED last
             ELSE /\ last' = Call("update", id, parentId, "NotFound", {},
                                  FALSE, FALSE)
                  /\ UNCHANGED <<calls, cache>>
    /\ UNCHANGED <<structures, nextSid, users, nextUid, permissions, nextPid>>

\* update(id, dto), second await: Object.assign and repository.save
UpdateSave(k) ==
    /\ calls[k].op = "update" /\ calls[k].pc = "save"
    /\ structures' = RepoSave(calls[k].id, calls[k].parentId)
    /\ calls' = [calls EXCEPT ![k].pc = "clear"]
    /\ UNCHANGED <<nextSid, users, nextUid, permissions, nextPid, cache, last>>

\* update(id, dto), third await: clearStructureCache, then the call returns
UpdateClearCache(k) ==
    /\ calls[k].op = "update" /\ calls[k].pc = "clear"
    /\ cache' = ClearStructureCache(cache)
    /\ calls' = [calls EXCEPT ![k] = Idle]
    /\ last' = Call("update", calls[k].id, calls[k].parentId, "ok", {},
                    FALSE, FALSE)
    /\ UNCHANGED <<structures, nextSid, users, nextUid, permissions, nextPid>>

\* findAll(), first await: cacheManager.get; a cached forest is returned
FindAllGet ==
    /\ \E k \in 1..MaxCalls :
          /\ FreeSlot(k)
          /\ IF CacheHas(cache, KAll)
             THEN /\ last' = Call("findAll", Null, Null, "ok", cache[KAll],
                                  FALSE, TRUE)
                  /\ UNCHANGED calls
             ELSE /\ calls' = [calls EXCEPT ![k] =
                                  [op |-> "findAll", id |-> Null,
                                   parentId |-> Null, pc |-> "query",
                                   snap |-> {}]]
                  /\ UNCHANGED last
    /\ UNCHANGED <<structures, nextSid, users, nextUid, permissions, nextPid,
                   cache>>

\* findAll(), second await: repository.findTrees()
FindAllQuery(k) ==
    /\ calls[k].op = "findAll" /\ calls[k].pc = "query"
    /\ calls' = [calls EXCEPT ![k].pc = "set", ![k].snap = FindTrees]
    /\ UNCHANGED <<structures, nextSid, users, nextUid, permissions, nextPid,
                   cache, last>>

\* findAll(), third await: cacheManager.set, then the call returns
FindAllSet(k) ==
    /\ calls[k].op = "findAll" /\ calls[k].pc = "set"
    /\ cache' = CacheSet(cache, KAll, calls[k].snap)
    /\ calls' = [calls EXCEPT ![k] = Idle]
    /\ last' = Call("findAll", Null, Null, "ok", calls[k].snap, FALSE, FALSE)
    /\ UNCHANGED <<structures, nextSid, users, nextUid, permissions, nextPid>>

----------------------------------------------------------------------------
\* The update of the tutorial StructuresService (docs/07), which has no
\* cache and tests for a cycle before it saves.

\* wouldCreateCycle(structure, newParentId): the new parent is loaded with
\* its parent relation, so the walk visits the new parent and its parent
\* and ends there (the parent's own parent is not loaded)
WouldCreateCycle(id, newParentId) ==
    /\ newParentId \in Stored
    /\ \/ newParentId = id
       \/ (structures[newParentId] \in Stored /\ structures[newParentId] = id)

\* update(id, dto), first await: findOne(id); then the self-parent test
TutorialUpdateFindOne(id, parentId) ==
    /\ \E k \in 1..MaxCalls :
          /\ FreeSlot(k)
          /\ IF id \notin Stored
             THEN /\ last' = Call("tutorialUpdate", id, parentId, "NotFound",
                                  {}, FALSE, FALSE)
                  /\ UNCHANGED calls
             ELSE IF parentId # Null /\ parentId = id
             THEN /\ last' = Call("tutorialUpdate", id, parentId, "BadRequest",
                                  {}, FALSE, FALSE)
                  /\ UNCHANGED calls
             ELSE /\ calls' = [calls EXCEPT ![k] =
                                  [op |-> "tutorialUpdate", id |-> id,
                                   parentId |-> parentId,
                                   pc |-> IF parentId # Null THEN "check"
                                          ELSE "save",
                                   snap |-> {}]]
                  /\ UNCHANGED last
    /\ UNCHANGED <<structures, nextSid, users, nextUid, permissions, nextPid,
                   cache>>

\* update(id, dto), second await: wouldCreateCycle
TutorialUpdateCheck(k) ==
    /\ calls[k].op = "tutorialUpdate" /\ calls[k].pc = "check"
    /\ IF WouldCreateCycle(calls[k].id, calls[k].parentId)
       THEN /\ calls' = [calls EXCEPT ![k] = Idle]
            /\ last' = Call("tutorialUpdate", calls[k].id, calls[k].parentId,
                            "BadRequest", {}, FALSE, FALSE)
       ELSE /\ calls' = [calls EXCEPT ![k].pc = "save"]
            /\ UNCHANGED last
    /\ UNCHANGED <<structures, nextSid, users, nextUid, permissions, nextPid,
                   cache>>

\* update(id, dto), third await: Object.assign and repository.save.  The
\* entity was loaded with its parent relation and the dto sets only the
\* parentId column: the save writes the dto's parentId, or (written = FALSE)
\* the row keeps the parent of the loaded relation
TutorialUpdateSave(k, written) ==
    /\ calls[k].op = "tutorialUpdate" /\ calls[k].pc = "save"
    /\ structures' = IF written /\ calls[k].id \in Stored
                     THEN RepoSave(calls[k].id, calls[k].parentId)
                     ELSE structures
    /\ calls' = [calls EXCEPT ![k] = Idle]
    /\ last' = Call("tutorialUpdate", calls[k].id, calls[k].parentId, "ok", {},
                    written, FALSE)
    /\ UNCHANGED <<nextSid, users, nextUid, permissions, nextPid, cache>>

----------------------------------------------------------------------------
\* The structures service over a cache store whose call fails.  No cache
\* call of the service is inside a try block, so the rejected promise of
\* cacheManager.get/set/del rejects the handler: what the handler did before
\* the failing call stays done, and the caller gets the cache error.

\* the cacheManager call of a read that fails: the get at its start or the
\* set of its result
FaultPoints == {"get", "set"}

\* findOne(id) with a failing get, or a failing set after a miss
FindOneCacheFails(id, at) ==
    /\ at = "set" => (~CacheHas(cache, KStructure(id)) /\ id \in Stored)
    /\ last' = Call("findOne", id, Null, "CacheError", {}, FALSE, FALSE)
    /\ UNCHANGED <<structures, nextSid, users, nextUid, permissions, nextPid,
                   cache, calls>>

\* findDescendants(id) with a failing get, or a failing set of the result
\* after a miss (the inner findOne has then cached the structure)
FindDescendantsCacheFails(id, at) ==
    LET f == FindOne(cache, id) IN
    /\ at = "set" => (~CacheHas(cache, KDesc(id)) /\ f.ok)
    /\ cache' = IF at = "set" THEN f.cache ELSE cache
    /\ CacheRoom(cache')
    /\ last' = Call("findDescendants", id, Null, "CacheError", {}, FALSE, FALSE)
    /\ UNCHANGED <<structures, nextSid, users, nextUid, permissions, nextPid, calls>>

\* findAncestors(id) with a failing get, or a failing set of the result
FindAncestorsCacheFails(id, at) ==
    LET f == FindOne(cache, id) IN
    /\ at = "set" => (~CacheHas(cache, KAnc(id)) /\ f.ok)
    /\ cache' = IF at = "set" THEN f.cache ELSE cache
    /\ CacheRoom(cache')
    /\ last' = Call("findAncestors", id, Null, "CacheError", {}, FALSE, FALSE)
    /\ UNCHANGED <<structures, nextSid, users, nextUid, permissions, nextPid, calls>>

\* findUserAccessibleStructures(userId, userStructureId) with a failing get,
\* or a failing set of the result; canAccessUser awaits it without a catch
FindUserAccessibleStructuresCacheFails(userId, userStructureId, at) ==
    LET f == FindOne(cache, userStructureId) IN
    /\ at = "set" => (~CacheHas(cache, KAcc(userId, userStructureId)) /\ f.ok)
    /\ cache' = IF at = "set" THEN f.cache ELSE cache
    /\ CacheRoom(cache')
    /\ last' = Call("findUserAccessibleStructures", userId, userStructureId,
                    "CacheError", {}, FALSE, FALSE)
    /\ UNCHANGED <<structures, nextSid, users, nextUid, permissions, nextPid, calls>>

\* create(dto) whose clearStructureCache fails: the row is saved
CreateCacheFails(parentId) ==
    /\ nextSid <= MaxStructures
    /\ structures' = RepoSave(nextSid, parentId)
    /\ nextSid' = nextSid + 1
    /\ last' = Call("create", nextSid, parentId, "CacheError", {}, FALSE, FALSE)
    /\ UNCHANGED <<users, nextUid, permissions, nextPid, cache, calls>>

\* update(id, dto) whose clearStructureCache fails: the row is saved
UpdateCacheFails(id, parentId) ==
    LET f == FindOne(cache, id) IN
    /\ f.ok
    /\ structures' = RepoSave(id, parentId)
    /\ cache' = f.cache
    /\ last' = Call("update", id, parentId, "CacheError", {}, FALSE, FALSE)
    /\ UNCHANGED <<nextSid, users, nextUid, permissions, nextPid, calls>>

\* remove(id) whose clearStructureCache fails: the row is removed
RemoveCacheFails(id) ==
    LET f == FindOne(cache, id) IN
    /\ f.ok
    /\ structures' = RepoRemove(id)
    /\ cache' = f.cache
    /\ last' = Call("remove", id, Null, "CacheError", {}, FALSE, FALSE)
    /\ UNCHANGED <<nextSid, users, nextUid, permissions, nextPid, calls>>

----------------------------------------------------------------------------
\* UsersService.

StoredUsers == DOMAIN users

\* user ids the database has generated so far
AllocatedUsers == 1..(nextUid - 1)

\* usersRepository.save(user) of a whole user object
UserSaveRow(id, row) ==
    [x \in StoredUsers \cup {id} |-> IF x = id THEN row ELSE users[x]]

\* usersRepository.save(user): the email column is unique; a new user gets
\* an email of its own and an update keeps the stored one
UserSave(id, structureId, role) ==
    UserSaveRow(id, [structureId |-> structureId, role |-> role,
                     email |-> IF id \in StoredUsers THEN users[id].email ELSE id])

\* create(dto): the dto's structureId and role are stored as sent
CreateUser(structureId, role) ==
    /\ nextUid <= MaxUsers
    /\ users' = UserSave(nextUid, structureId, role)
    /\ nextUid' = nextUid + 1
    /\ last' = Call("createUser", nextUid, structureId, "ok", {}, FALSE, FALSE)
    /\ UNCHANGED <<structures, nextSid, permissions, nextPid, cache, calls>>

\* update(id, dto): findOne, Object.assign, save; the dto re-homes the user
\* and sets its role (sending the stored value leaves a field as it is)
UpdateUser(id, structureId, role) ==
    /\ IF id \in StoredUsers
       THEN /\ users' = UserSave(id, structureId, role)
            /\ last' = Call("updateUser", id, structureId, "ok", {}, FALSE, FALSE)
       ELSE /\ UNCHANGED users
            /\ last' = Call("updateUser", id, structureId, "NotFound", {},
                            FALSE, FALSE)
    /\ UNCHANGED <<structures, nextSid, nextUid, permissions, nextPid, cache, calls>>

\* remove(id): findOne (NotFound if there is no such user), repository.remove
RemoveUser(id) ==
    /\ IF id \in StoredUsers
       THEN /\ users' = [x \in StoredUsers \ {id} |-> users[x]]
            /\ last' = Call("removeUser", id, Null, "ok", {}, FALSE, FALSE)
       ELSE /\ UNCHANGED users
            /\ last' = Call("removeUser", id, Null, "NotFound", {}, FALSE, FALSE)
    /\ UNCHANGED <<structures, nextSid, nextUid, permissions, nextPid, cache, calls>>

\* a membership test that matches any structure of the list
HasAccessAny(accessibleStructures, targetStructureId) ==
    accessibleStructures # {}

\* accessibleStructures.some((structure) => structure.id === targetUser.structureId)
HasAccess(accessibleStructures, targetStructureId) ==
    targetStructureId \in accessibleStructures

\* a test that looks at the requester's structureId only
NoStructureRequester(currentUser, targetUser) ==
    currentUser.structureId = Null

\* !currentUser.structureId || !targetUser.structureId
NoStructure(currentUser, targetUser) ==
    currentUser.structureId = Null \/ targetUser.structureId = Null

\* a filter that lets every stored user through
UsersInAny(structureIds) == StoredUsers

\* usersRepository.find({ where: { structureId: In(structureIds) } })
UsersIn(structureIds) ==
    {u \in StoredUsers : users[u].structureId \in structureIds}

\* findAll(currentUserId) of users.service.ts
FindAllUsers(currentUserId) ==
    /\ IF currentUserId \notin StoredUsers
       THEN /\ UNCHANGED cache
            /\ last' = Call("findAllUsers", currentUserId, Null, "NotFound",
                            {}, FALSE, FALSE)
       ELSE IF users[currentUserId].structureId = Null
       THEN /\ UNCHANGED cache
            /\ last' = Call("findAllUsers", currentUserId, Null, "Forbidden",
                            {}, FALSE, FALSE)
       ELSE LET r == FindUserAccessibleStructures(cache, currentUserId,
                                          users[currentUserId].structureId) IN
            /\ CacheRoom(r.cache)
            /\ cache' = r.cache
            /\ last' = IF r.ok
                       THEN Call("findAllUsers", currentUserId, Null, "ok",
                                 UsersIn(r.val), FALSE, r.hit)
                       ELSE Call("findAllUsers", currentUserId, Null,
                                 "NotFound", {}, FALSE, FALSE)
    /\ UNCHANGED <<structures, nextSid, users, nextUid, permissions, nextPid, calls>>

\* findAll(currentUserId) of the admin-aware UsersService: an admin gets
\* every user, a user without a structure gets itself
FindAllUsersAdminAware(currentUserId) ==
    /\ IF currentUserId \notin StoredUsers
       THEN /\ UNCHANGED cache
            /\ last' = Call("findAllUsersAdminAware", currentUserId, Null,
                            "NotFound", {}, FALSE, FALSE)
       ELSE IF users[currentUserId].role = "admin"
       THEN /\ UNCHANGED cache
            /\ last' = Call("findAllUsersAdminAware", currentUserId, Null,
                            "ok", StoredUsers, FALSE, FALSE)
       ELSE IF users[currentUserId].structureId = Null
       THEN /\ UNCHANGED cache
            /\ last' = Call("findAllUsersAdminAware", currentUserId, Null,
                            "ok", {currentUserId}, FALSE, FALSE)
       ELSE LET r == FindUserAccessibleStructures(cache, currentUserId,
                                          users[currentUserId].structureId) IN
            /\ CacheRoom(r.cache)
            /\ cache' = r.cache
            /\ last' = IF r.ok
                       THEN Call("findAllUsersAdminAware", currentUserId, Null,
                                 "ok", UsersIn(r.val), FALSE, r.hit)
                       ELSE Call("findAllUsersAdminAware", currentUserId, Null,
                                 "NotFound", {}, FALSE, FALSE)
    /\ UNCHANGED <<structures, nextSid, users, nextUid, permissions, nextPid, calls>>

\* canAccessUser(currentUserId, targetUserId) of users.service.ts
CanAccessUser(currentUserId, targetUserId) ==
    /\ IF currentUserId \notin StoredUsers \/ targetUserId \notin StoredUsers
       THEN /\ UNCHANGED cache
            /\ last' = Call("canAccessUser", currentUserId, targetUserId,
                            "NotFound", {}, FALSE, FALSE)
       ELSE IF NoStructure(users[currentUserId], users[targetUserId])
       THEN /\ UNCHANGED cache
            /\ last' = Call("canAccessUser", currentUserId, targetUserId,
                            "ok", {}, FALSE, FALSE)
       ELSE LET r == FindUserAccessibleStructures(cache, currentUserId,
                                          users[currentUserId].structureId) IN
            /\ CacheRoom(r.cache)
            /\ cache' = r.cache
            /\ last' = IF r.ok
                       THEN Call("canAccessUser", currentUserId, targetUserId,
                                 "resolved", r.val,
                                 HasAccess(r.val, users[targetUserId].structureId),
                                 r.hit)
                       ELSE Call("canAccessUser", currentUserId, targetUserId,
                                 "NotFound", {}, FALSE, FALSE)
    /\ UNCHANGED <<structures, nextSid, users, nextUid, permissions, nextPid, calls>>

\* canAccessUser(currentUserId, targetUserId) of the admin-aware UsersService
CanAccessUserAdminAware(currentUserId, targetUserId) ==
    /\ IF currentUserId \notin StoredUsers
       THEN /\ UNCHANGED cache
            /\ last' = Call("canAccessUserAdminAware", currentUserId,
                            targetUserId, "NotFound", {}, FALSE, FALSE)
       ELSE IF users[currentUserId].role = "admin"
       THEN /\ UNCHANGED cache
            /\ last' = Call("canAccessUserAdminAware", currentUserId,
                            targetUserId, "ok", {}, TRUE, FALSE)
       ELSE IF targetUserId \notin StoredUsers
       THEN /\ UNCHANGED cache
            /\ last' = Call("canAccessUserAdminAware", currentUserId,
                            targetUserId, "NotFound", {}, FALSE, FALSE)
       ELSE IF currentUserId = targetUserId
       THEN /\ UNCHANGED cache
            /\ last' = Call("canAccessUserAdminAware", currentUserId,
                            targetUserId, "ok", {}, TRUE, FALSE)
       ELSE IF users[currentUserId].structureId = Null
               \/ users[targetUserId].structureId = Null
       THEN /\ UNCHANGED cache
            /\ last' = Call("canAccessUserAdminAware", currentUserId,
                            targetUserId, "ok", {}, FALSE, FALSE)
       ELSE LET r == FindUserAccessibleStructures(cache, currentUserId,
                                          users[currentUserId].structureId) IN
            /\ CacheRoom(r.cache)
            /\ cache' = r.cache
            /\ last' = IF r.ok
                       THEN Call("canAccessUserAdminAware", currentUserId,
                                 targetUserId, "resolved", r.val,
                                 HasAccess(r.val, users[targetUserId].structureId),
                                 r.hit)
                       ELSE Call("canAccessUserAdminAware", currentUserId,
                                 targetUserId, "NotFound", {}, FALSE, FALSE)
    /\ UNCHANGED <<structures, nextSid, users, nextUid, permissions, nextPid, calls>>

----------------------------------------------------------------------------
\* The caching UsersService (the class that follows the Permission entity).

\* findOne(id): the cached user if any, else the stored row (and cache it)
FindOneUser(c, id) ==
    IF CacheHas(c, KUser(id))
    THEN [ok |-> TRUE, val |-> c[KUser(id)], cache |-> c]
    ELSE IF id \in StoredUsers
    THEN [ok |-> TRUE, val |-> users[id], cache |-> CacheSet(c, KUser(id), users[id])]
    ELSE [ok |-> FALSE, val |-> [structureId |-> Null, role |-> "user", email |-> Null],
          cache |-> c]

\* clearUserCaches(userId): looks the user up in the table tbl as the write
\* left it and, if it is there, deletes its three keys
ClearUserCaches(c, tbl, userId) ==
    IF userId \in DOMAIN tbl
    THEN CacheDel(CacheDel(CacheDel(c, KUser(userId)),
                           KUserEmail(tbl[userId].email)),
                  KUsersAccessible(userId))
    ELSE c

\* canAccessUser(currentUserId, targetUserId) as a function of the cache it
\* starts from: a cached decision is returned as it is; otherwise both users
\* are looked up, the accessible set resolved and the decision cached
CanAccessUserFrom(c, currentUserId, targetUserId) ==
    IF CacheHas(c, KAccess(currentUserId, targetUserId))
    THEN [outcome |-> "ok", set |-> {},
          flag |-> c[KAccess(currentUserId, targetUserId)], hit |-> TRUE,
          cache |-> c]
    ELSE LET fc == FindOneUser(c, currentUserId) IN
         IF ~fc.ok
         THEN [outcome |-> "NotFound", set |-> {}, flag |-> FALSE,
               hit |-> FALSE, cache |-> c]
         ELSE LET ft == FindOneUser(fc.cache, targetUserId) IN
         IF ~ft.ok
         THEN [outcome |-> "NotFound", set |-> {}, flag |-> FALSE,
               hit |-> FALSE, cache |-> fc.cache]
         ELSE IF fc.val.structureId = Null \/ ft.val.structureId = Null
         THEN [outcome |-> "ok", set |-> {}, flag |-> FALSE, hit |-> FALSE,
               cache |-> CacheSet(ft.cache,
                                  KAccess(currentUserId, targetUserId), FALSE)]
         ELSE LET r == FindUserAccessibleStructures(ft.cache, currentUserId,
                                                    fc.val.structureId) IN
         IF ~r.ok
         THEN [outcome |-> "NotFound", set |-> {}, flag |-> FALSE,
               hit |-> FALSE, cache |-> ft.cache]
         ELSE [outcome |-> "resolved", set |-> r.val,
               flag |-> HasAccess(r.val, ft.val.structureId), hit |-> FALSE,
               cache |-> CacheSet(r.cache, KAccess(currentUserId, targetUserId),
                                  HasAccess(r.val, ft.val.structureId))]

\* create(dto): save, clearUserCaches
CreateUserCached(structureId, role) ==
    /\ nextUid <= MaxUsers
    /\ users' = UserSave(nextUid, structureId, role)
    /\ nextUid' = nextUid + 1
    /\ cache' = ClearUserCaches(cache, users', nextUid)
    /\ last' = Call("createUserCached", nextUid, structureId, "ok", {}, FALSE, FALSE)
    /\ UNCHANGED <<structures, nextSid, permissions, nextPid, calls>>

\* update(id, dto): findOne (cached or not), Object.assign, save,
\* clearUserCaches; the flag of the call tells whether the home changed
UpdateUserCached(id, structureId, role) ==
    LET f == FindOneUser(cache, id) IN
    /\ IF f.ok
       THEN /\ users' = UserSaveRow(id, [structureId |-> structureId,
                                         role |-> role, email |-> f.val.email])
            /\ cache' = ClearUserCaches(f.cache, users', id)
            /\ last' = Call("updateUserCached", id, structureId, "ok", {},
                            f.val.structureId # structureId, FALSE)
       ELSE /\ UNCHANGED <<users, cache>>
            /\ last' = Call("updateUserCached", id, structureId, "NotFound", {},
                            FALSE, FALSE)
    /\ UNCHANGED <<structures, nextSid, nextUid, permissions, nextPid, calls>>

\* canAccessUser(currentUserId, targetUserId)
CanAccessUserCached(currentUserId, targetUserId) ==
    LET r == CanAccessUserFrom(cache, currentUserId, targetUserId) IN
    /\ cache' = r.cache
    /\ last' = Call("canAccessUserCached", currentUserId, targetUserId,
                    r.outcome, r.set, r.flag, r.hit)
    /\ UNCHANGED <<structures, nextSid, users, nextUid, permissions, nextPid, calls>>

\* findByEmail(email): the cached user if any, else the stored row with
\* that email (and cache it); the value is the user's id and row
FindByEmail(c, email) ==
    IF CacheHas(c, KUserEmail(email))
    THEN [ok |-> TRUE, val |-> c[KUserEmail(email)], cache |-> c]
    ELSE IF \E u \in StoredUsers : users[u].email = email
    THEN LET u == CHOOSE v \in StoredUsers : users[v].email = email IN
         [ok |-> TRUE, val |-> <<u, users[u]>>,
          cache |-> CacheSet(c, KUserEmail(email), <<u, users[u]>>)]
    ELSE [ok |-> FALSE, val |-> <<Null, Null>>, cache |-> c]

\* update(id, dto) with an email in the dto: findOne (cached or not),
\* Object.assign, save, clearUserCaches.  The email column is unique: the
\* database rejects an email that another user holds.
UpdateUserEmailCached(id, email) ==
    LET f == FindOneUser(cache, id) IN
    /\ IF ~f.ok
       THEN /\ UNCHANGED <<users, cache>>
            /\ last' = Call("updateUserEmailCached", id, email, "NotFound",
                            {}, FALSE, FALSE)
       ELSE IF \E v \in StoredUsers \ {id} : users[v].email = email
       THEN /\ UNCHANGED users
            /\ cache' = f.cache
            /\ last' = Call("updateUserEmailCached", id, email, "QueryFailed",
                            {}, FALSE, FALSE)
       ELSE /\ users' = UserSaveRow(id, [f.val EXCEPT !.email = email])
            /\ cache' = ClearUserCaches(f.cache, users', id)
            /\ last' = Call("updateUserEmailCached", id, email, "ok",
                            {f.val.email}, f.val.email # email, FALSE)
    /\ UNCHANGED <<structures, nextSid, nextUid, permissions, nextPid, calls>>

\* remove(id): findOne (cached or not), repository.remove, clearUserCaches
RemoveUserCached(id) ==
    LET f == FindOneUser(cache, id) IN
    /\ IF f.ok
       THEN /\ users' = [x \in StoredUsers \ {id} |-> users[x]]
            /\ cache' = ClearUserCaches(f.cache, users', id)
            /\ last' = Call("removeUserCached", id, f.val.email, "ok", {},
                            FALSE, FALSE)
       ELSE /\ UNCHANGED <<users, cache>>
            /\ last' = Call("removeUserCached", id, Null, "NotFound", {},
                            FALSE, FALSE)
    /\ UNCHANGED <<structures, nextSid, nextUid, permissions, nextPid, calls>>

\* findOne(id) called by itself
ReadUserCached(id) ==
    LET r == FindOneUser(cache, id) IN
    /\ cache' = r.cache
    /\ last' = Call("findOneUserCached", id, Null,
                    IF r.ok THEN "ok" ELSE "NotFound", {}, FALSE,
                    CacheHas(cache, KUser(id)))
    /\ UNCHANGED <<structures, nextSid, users, nextUid, permissions, nextPid, calls>>

\* findByEmail(email) called by itself
ReadByEmailCached(email) ==
    LET r == FindByEmail(cache, email) IN
    /\ cache' = r.cache
    /\ last' = Call("findByEmailCached", r.val[1], email,
                    IF r.ok THEN "ok" ELSE "NotFound", {}, FALSE,
                    CacheHas(cache, KUserEmail(email)))
    /\ UNCHANGED <<structures, nextSid, users, nextUid, permissions, nextPid, calls>>

\* findAll(currentUserId): the cached list if any; else findOne, Forbidden
\* without a structureId, the users of the accessible structures, cached.
\* A list is the set of its users as pairs of id and structureId.
FindAllUsersCached(currentUserId) ==
    IF CacheHas(cache, KUsersAccessible(currentUserId))
    THEN /\ last' = Call("findAllUsersCached", currentUserId, Null, "ok",
                         cache[KUsersAccessible(currentUserId)], FALSE, TRUE)
         /\ UNCHANGED <<structures, nextSid, users, nextUid, permissions,
                        nextPid, cache, calls>>
    ELSE LET f == FindOneUser(cache, currentUserId) IN
         /\ IF ~f.ok
            THEN /\ UNCHANGED cache
                 /\ last' = Call("findAllUsersCached", currentUserId, Null,
                                 "NotFound", {}, FALSE, FALSE)
            ELSE IF f.val.structureId = Null
            THEN /\ cache' = f.cache
                 /\ last' = Call("findAllUsersCached", currentUserId, Null,
                                 "Forbidden", {}, FALSE, FALSE)
            ELSE LET r == FindUserAccessibleStructures(f.cache, currentUserId,
                                                       f.val.structureId)
                     found == {<<u, users[u].structureId>> : u \in UsersIn(r.val)}
                 IN
                 IF ~r.ok
                 THEN /\ cache' = f.cache
                      /\ last' = Call("findAllUsersCached", currentUserId,
                                      Null, "NotFound", {}, FALSE, FALSE)
                 ELSE /\ cache' = CacheSet(r.cache,
                                           KUsersAccessible(currentUserId), found)
                      /\ last' = Call("findAllUsersCached", currentUserId,
                                      Null, "ok", found, FALSE, FALSE)
         /\ UNCHANGED <<structures, nextSid, users, nextUid, permissions,
                        nextPid, calls>>

----------------------------------------------------------------------------
\* UsersController.update over the admin-aware UsersService.  The request
\* body is an UpdateUserDto: every field is @IsOptional, so a field may be
\* left out or sent as null.  req.user is the stored user of the requester.

\* a property that the request body does not have
AbsentRole == "undefined"
AbsentId == -1

\* a role sent, or stored, as null
NullRole == "null"

\* the role and structureId fields of the bodies that pass validation
UpdateUserDtos ==
    [role : {AbsentRole, NullRole} \cup Roles,
     structureId : {AbsentId, Null} \cup Allocated]

\* updateUserDto.role || updateUserDto.structureId: an absent or null field
\* is falsy
DtoSetsRoleOrStructure(dto) ==
    \/ dto.role \notin {AbsentRole, NullRole}
    \/ dto.structureId \notin {AbsentId, Null}

\* Object.assign(user, updateUserDto): every property of the body, a null
\* one included, is copied onto the user
AssignDto(user, dto) ==
    [user EXCEPT
        !.role = IF dto.role = AbsentRole THEN @ ELSE dto.role,
        !.structureId = IF dto.structureId = AbsentId THEN @
                        ELSE dto.structureId]

\* clearUserCaches(userId) of the admin-aware UsersService
ClearUserCachesAdminAware(c, tbl, userId) ==
    IF userId \in DOMAIN tbl
    THEN CacheDel(CacheDel(c, KUser(userId)), KUserEmail(tbl[userId].email))
    ELSE c

\* PUT /users/:id
ControllerUpdate(requesterId, id, dto) ==
    /\ requesterId \in StoredUsers
    /\ IF users[requesterId].role # "admin" /\ requesterId # id
       THEN /\ UNCHANGED <<users, cache>>
            /\ last' = Call("controllerUpdate", requesterId, id, "Forbidden",
                            {}, FALSE, FALSE)
       ELSE IF users[requesterId].role # "admin" /\ DtoSetsRoleOrStructure(dto)
       THEN /\ UNCHANGED <<users, cache>>
            /\ last' = Call("controllerUpdate", requesterId, id, "Forbidden",
                            {}, FALSE, FALSE)
       ELSE IF id \notin StoredUsers
       THEN /\ UNCHANGED <<users, cache>>
            /\ last' = Call("controllerUpdate", requesterId, id, "NotFound",
                            {}, FALSE, FALSE)
       ELSE /\ users' = UserSaveRow(id, AssignDto(users[id], dto))
            /\ cache' = ClearUserCachesAdminAware(cache, users', id)
            /\ last' = Call("controllerUpdate", requesterId, id, "ok", {},
                            FALSE, FALSE)
    /\ UNCHANGED <<structures, nextSid, nextUid, permissions, nextPid, calls>>

----------------------------------------------------------------------------
\* PermissionsService.

StoredPerms == DOMAIN permissions

\* grantPermission(userId, structureId): save the grant, delete the
\* user_permissions_ key of the user
GrantPermission(userId, structureId) ==
    /\ nextPid <= MaxPerms
    /\ permissions' = [x \in StoredPerms \cup {nextPid} |->
                          IF x = nextPid
                          THEN [userId |-> userId, structureId |-> structureId]
                          ELSE permissions[x]]
    /\ nextPid' = nextPid + 1
    /\ cache' = CacheDel(cache, KUserPerms(userId))
    /\ last' = Call("grantPermission", userId, structureId, "ok", {}, FALSE, FALSE)
    /\ UNCHANGED <<structures, nextSid, users, nextUid, calls>>

\* revokePermission(id): NotFound if there is no such grant, else remove it
\* and delete the user_permissions_ key of its user
RevokePermission(id) ==
    /\ IF id \in StoredPerms
       THEN /\ permissions' = [x \in StoredPerms \ {id} |-> permissions[x]]
            /\ cache' = CacheDel(cache, KUserPerms(permissions[id].userId))
            /\ last' = Call("revokePermission", permissions[id].userId,
                            permissions[id].structureId, "ok", {}, FALSE, FALSE)
       ELSE /\ UNCHANGED <<permissions, cache>>
            /\ last' = Call("revokePermission", Null, Null, "NotFound", {},
                            FALSE, FALSE)
    /\ UNCHANGED <<structures, nextSid, users, nextUid, nextPid, calls>>

----------------------------------------------------------------------------
\* The structures service alone: writes and the cached tree reads.
Next ==
    \/ \E p \in Allocated \cup {Null} : Create(p)
    \/ \E id \in Allocated, p \in Allocated \cup {Null} : Update(id, p)
    \/ \E id \in Allocated : Remove(id)
    \/ \E id \in Allocated : ReadOne(id)
    \/ \E id \in Allocated : ReadDescendants(id)
    \/ \E id \in Allocated : ReadAncestors(id)

Spec == Init /\ [][Next]_vars

\* The writes of the structures service, renames included.
NextTree ==
    \/ \E p \in Allocated \cup {Null} : Create(p)
    \/ \E id \in Allocated, p \in Allocated \cup {Null} : Update(id, p)
    \/ \E id \in Allocated : Rename(id)
    \/ \E id \in Allocated : Remove(id)

SpecTree == Init /\ [][NextTree]_vars

\* The access decisions of users.service.ts for non-admin users, over a tree
\* that is written to and users that are re-homed.
NextAccess ==
    \/ \E p \in Allocated \cup {Null} : Create(p)
    \/ \E id \in Allocated, p \in Allocated \cup {Null} : Update(id, p)
    \/ \E id \in Allocated : Remove(id)
    \/ \E s \in Allocated \cup {Null} : CreateUser(s, "user")
    \/ \E a \in AllocatedUsers, t \in AllocatedUsers : CanAccessUser(a, t)

SpecAccess == Init /\ [][NextAccess]_vars

\* Both versions of canAccessUser, for users of every role, over a tree that
\* only grows.
NextRoles ==
    \/ \E p \in Allocated \cup {Null} : Create(p)
    \/ \E s \in Allocated \cup {Null}, r \in Roles : CreateUser(s, r)
    \/ \E u \in AllocatedUsers, s \in Allocated \cup {Null}, r \in Roles :
          UpdateUser(u, s, r)
    \/ \E u \in AllocatedUsers : RemoveUser(u)
    \/ \E a \in AllocatedUsers, t \in AllocatedUsers : CanAccessUser(a, t)
    \/ \E a \in AllocatedUsers, t \in AllocatedUsers :
          CanAccessUserAdminAware(a, t)

SpecRoles == Init /\ [][NextRoles]_vars

\* Both versions of the users' findAll, for users of every role that are
\* re-homed, over a tree that only grows.
NextFindAll ==
    \/ \E p \in Allocated \cup {Null} : Create(p)
    \/ \E s \in Allocated \cup {Null}, r \in Roles : CreateUser(s, r)
    \/ \E u \in AllocatedUsers, s \in Allocated \cup {Null}, r \in Roles :
          UpdateUser(u, s, r)
    \/ \E a \in AllocatedUsers : FindAllUsers(a)
    \/ \E a \in AllocatedUsers : FindAllUsersAdminAware(a)

SpecFindAll == Init /\ [][NextFindAll]_vars

\* The update endpoint of the users controller, for users of every role,
\* over root structures.
NextController ==
    \/ Create(Null)
    \/ \E s \in Allocated \cup {Null}, r \in Roles : CreateUser(s, r)
    \/ \E u \in AllocatedUsers : RemoveUser(u)
    \/ \E a \in AllocatedUsers, t \in AllocatedUsers, dto \in UpdateUserDtos :
          ControllerUpdate(a, t, dto)

SpecController == Init /\ [][NextController]_vars

\* Permission grants next to the access decisions, over a tree that only grows.
NextPerms ==
    \/ \E p \in Allocated \cup {Null} : Create(p)
    \/ \E s \in Allocated \cup {Null} : CreateUser(s, "user")
    \/ \E a \in AllocatedUsers, t \in AllocatedUsers : CanAccessUser(a, t)
    \/ \E u \in AllocatedUsers, s \in Allocated : GrantPermission(u, s)
    \/ \E id \in 1..(nextPid - 1) : RevokePermission(id)

SpecPerms == Init /\ [][NextPerms]_vars

\* The caching UsersService for non-admin users that are re-homed, over
\* root structures that are created and never change.
NextCached ==
    \/ Create(Null)
    \/ \E s \in Allocated \cup {Null} : CreateUserCached(s, "user")
    \/ \E u \in AllocatedUsers, s \in Allocated \cup {Null} :
          UpdateUserCached(u, s, "user")
    \/ \E a \in AllocatedUsers, t \in AllocatedUsers : CanAccessUserCached(a, t)

SpecCached == Init /\ [][NextCached]_vars

\* The caching UsersService: users without a structure that are created,
\* given another email and removed, and the cached lookups by id and email.
NextUserKeys ==
    \/ CreateUserCached(Null, "user")
    \/ \E u \in AllocatedUsers, e \in Emails : UpdateUserEmailCached(u, e)
    \/ \E u \in AllocatedUsers : RemoveUserCached(u)
    \/ \E u \in AllocatedUsers : ReadUserCached(u)
    \/ \E e \in Emails : ReadByEmailCached(e)

SpecUserKeys == Init /\ [][NextUserKeys]_vars

\* The caching UsersService: users that are created, re-homed and removed
\* over root structures, and the cached findAll.
NextUserLists ==
    \/ Create(Null)
    \/ \E s \in Allocated \cup {Null} : CreateUserCached(s, "user")
    \/ \E u \in AllocatedUsers, s \in Allocated \cup {Null} :
          UpdateUserCached(u, s, "user")
    \/ \E u \in AllocatedUsers : RemoveUserCached(u)
    \/ \E u \in AllocatedUsers : FindAllUsersCached(u)

SpecUserLists == Init /\ [][NextUserLists]_vars

\* The structures service over a cache store that may fail a call.
NextFaults ==
    \/ \E p \in Allocated \cup {Null} : Create(p)
    \/ \E id \in Allocated, p \in Allocated \cup {Null} : Update(id, p)
    \/ \E id \in Allocated : Remove(id)
    \/ \E id \in Allocated : ReadOne(id)
    \/ \E id \in Allocated, at \in FaultPoints : FindOneCacheFails(id, at)
    \/ \E id \in Allocated, at \in FaultPoints : FindDescendantsCacheFails(id, at)
    \/ \E id \in Allocated, at \in FaultPoints : FindAncestorsCacheFails(id, at)
    \/ \E u \in 1..MaxUsers, id \in Allocated, at \in FaultPoints :
          FindUserAccessibleStructuresCacheFails(u, id, at)
    \/ \E p \in Allocated \cup {Null} : CreateCacheFails(p)
    \/ \E id \in Allocated, p \in Allocated \cup {Null} : UpdateCacheFails(id, p)
    \/ \E id \in Allocated : RemoveCacheFails(id)

SpecFaults == Init /\ [][NextFaults]_vars

\* The writes of the structures service and findAll, one call at a time.
NextForest ==
    \/ \E p \in Allocated \cup {Null} : Create(p)
    \/ \E id \in Allocated, p \in Allocated \cup {Null} : Update(id, p)
    \/ \E id \in Allocated : Remove(id)
    \/ ReadAll

SpecForest == Init /\ [][NextForest]_vars

\* Concurrent update and findAll calls of the structures service.
NextConc ==
    \/ \E p \in Allocated \cup {Null} : nextSid <= MaxConcStructures /\ Create(p)
    \/ \E id \in Allocated, p \in Allocated \cup {Null} : UpdateFindOne(id, p)
    \/ \E k \in 1..MaxCalls : UpdateSave(k)
    \/ \E k \in 1..MaxCalls : UpdateClearCache(k)
    \/ FindAllGet
    \/ \E k \in 1..MaxCalls : FindAllQuery(k)
    \/ \E k \in 1..MaxCalls : FindAllSet(k)

SpecConc == Init /\ [][NextConc]_vars

\* Concurrent update calls of the tutorial StructuresService.
NextTutorial ==
    \/ \E p \in Allocated \cup {Null} : Create(p)
    \/ \E id \in Allocated, p \in Allocated \cup {Null} :
          TutorialUpdateFindOne(id, p)
    \/ \E k \in 1..MaxCalls : TutorialUpdateCheck(k)
    \/ \E k \in 1..MaxCalls, written \in BOOLEAN : TutorialUpdateSave(k, written)

SpecTutorial == Init /\ [][NextTutorial]_vars

----------------------------------------------------------------------------
\* Properties.

CanAccessOps == {"canAccessUser", "canAccessUserAdminAware"}

\* C1: after any accepted sequence of create and update calls the stored
\* parent relation has no cycle: following parentId from a stored structure
\* never comes back to it.
C1_Acyclic == \A x \in Stored : x \notin Up(structures, x)

\* C2: update(id, {parentId: p}) on a stored structure id is rejected and
\* leaves the structures table as it was whenever p = id or p is a descendant
\* of id at any depth.
C2_UpdateRejectsCycle ==
    [][(/\ last'.op = "update"
        /\ last'.a \in Stored
        /\ last'.b \in RepoFindDescendants(last'.a))
       => (last'.outcome # "ok" /\ structures' = structures)]_vars

\* C3: remove(id) is rejected with HasChildren whenever some stored structure
\* has parentId = id, and then the structures table is left as it was.
C3_RemoveRejectsParent ==
    [][(/\ last'.op = "remove"
        /\ last'.a \in Stored
        /\ \E c \in Stored : structures[c] = last'.a)
       => (last'.outcome = "HasChildren" /\ structures' = structures)]_vars

\* the home structure of the requester of the last call
LastHome == users[last.a].structureId

\* the last call was a canAccessUser that resolved the requester's accessible
\* set through findUserAccessibleStructures
Resolved == last.op \in CanAccessOps /\ last.outcome = "resolved"

\* C4: on a cache miss, findUserAccessibleStructures for a user homed at a
\* stored structure h returns exactly h and the transitive descendants of h:
\* it contains h and no strict ancestor of h.
C4_ExactSubtree ==
    (Resolved /\ ~last.hit /\ LastHome \in Stored)
    => /\ last.set = RepoFindDescendants(LastHome)
       /\ LastHome \in last.set
       /\ last.set \cap (Up(structures, LastHome) \ {LastHome}) = {}

\* C5: for distinct non-admin users a and t, canAccessUser(a, t) returns true
\* only if t's current home structure is a's current home structure or a
\* descendant of it in the current tree.
C5_OnlyDownstream ==
    (/\ Resolved
     /\ last.a # last.b
     /\ users[last.a].role # "admin"
     /\ last.flag)
    => \/ users[last.b].structureId = LastHome
       \/ users[last.b].structureId \in RepoFindDescendants(LastHome)

\* C6: a findDescendants or findAncestors call that follows a write returns
\* the result computed from the store as the write left it, never a value
\* cached before the write.
C6_ReadsSeeWrites ==
    /\ (last.op = "findDescendants" /\ last.outcome = "ok")
       => last.set = RepoFindDescendants(last.a)
    /\ (last.op = "findAncestors" /\ last.outcome = "ok")
       => last.set = RepoFindAncestors(last.a)

\* C7: canAccessUser(u, u) returns true for every stored user u, with or
\* without a structureId and whatever its role.
C7_SelfAccess ==
    (last.op \in CanAccessOps /\ last.a = last.b /\ last.a \in StoredUsers)
    => (last.outcome \in {"ok", "resolved"} /\ last.flag)

\* C8: for distinct non-admin users that both have a home structure,
\* canAccessUser(requester, target) returns true if and only if the target's
\* structureId is among the ids that findUserAccessibleStructures returns
\* for the requester.
C8_AccessIffMember ==
    (/\ last.op \in CanAccessOps
     /\ last.outcome \in {"ok", "resolved"}
     /\ last.a # last.b
     /\ users[last.a].role # "admin"
     /\ users[last.a].structureId # Null
     /\ users[last.b].structureId # Null)
    => LET r == FindUserAccessibleStructures(cache, last.a, LastHome) IN
       r.ok /\ (last.flag <=> users[last.b].structureId \in r.val)

\* C8 witness: a canAccessUser call between two users with different homes
\* that granted access.
C8_Witness ==
    /\ Resolved
    /\ last.a # last.b
    /\ users[last.a].role # "admin"
    /\ users[last.a].structureId # users[last.b].structureId
    /\ last.flag

\* C9: the accessible set resolved for a user contains the structureId of
\* every permission grant that the user holds.
C9_GrantsIncluded ==
    Resolved
    => \A p \in StoredPerms :
          permissions[p].userId = last.a => permissions[p].structureId \in last.set

\* C10: after a permission is granted to or revoked from user u, no
\* accessible-structure cache entry of u is left.
C10_GrantInvalidates ==
    (last.op \in {"grantPermission", "revokePermission"} /\ last.outcome = "ok")
    => \A s \in SIds : ~CacheHas(cache, KAcc(last.a, s))

\* C12: a canAccessUser call has just resolved the requester's accessible
\* set; with no write in between, a second findUserAccessibleStructures call
\* for the same user is answered from the cache, leaves the cache as it is
\* and returns the same set, the empty set included.
C12_RepeatFromCache ==
    Resolved
    => LET r == FindUserAccessibleStructures(cache, last.a, LastHome) IN
       r.ok /\ r.hit /\ r.val = last.set /\ r.cache = cache

\* C12 witness: a resolution answered from the cache with the empty set.
C12_Witness == Resolved /\ last.hit /\ last.set = {}

\* C13: for all stored structures A and B, findDescendants(A) contains B if
\* and only if findAncestors(B) contains A, whether the two reads are served
\* from the cache or from the store.
C13_DescAncDual ==
    \A A \in Stored, B \in Stored :
        LET d == FindDescendants(cache, A)
            u == FindAncestors(cache, B) IN
        (d.ok /\ u.ok) => (B \in d.val <=> A \in u.val)

\* C14: if structure P is an ancestor of structure C, the accessible set
\* resolved for a user homed at P contains the accessible set resolved for a
\* user homed at C.
C14_AncestorSeesMore ==
    \A a \in StoredUsers, b \in StoredUsers :
        LET P == users[a].structureId
            C == users[b].structureId IN
        (P \in Stored /\ C \in Stored /\ P \in Up(structures, C))
        => LET ra == FindUserAccessibleStructures(cache, a, P)
               rb == FindUserAccessibleStructures(cache, b, C) IN
           (ra.ok /\ rb.ok) => rb.val \subseteq ra.val

\* C19: canAccessUser fails with NotFound whenever the requester id or the
\* target id is not a stored user, whatever the role of the requester.
C19_NotFoundForUnknown ==
    (last.op \in CanAccessOps
     /\ (last.a \notin StoredUsers \/ last.b \notin StoredUsers))
    => last.outcome = "NotFound"

\* C20: findOne, findDescendants and findAncestors fail with NotFound
\* whenever no structure with the given id is stored at the time of the call.
C20_NotFoundForMissing ==
    (last.op \in {"findOne", "findDescendants", "findAncestors"}
     /\ last.a \notin Stored)
    => last.outcome = "NotFound"

\* C11: after update has changed the structureId of user u, the next
\* canAccessUser(u, t) is decided from u's new home: for every stored target
\* t it returns whether t's structureId is in the accessible set resolved
\* for u at the new home, never a decision cached under the old home.
C11_RehomedDecisions ==
    (last.op = "updateUserCached" /\ last.outcome = "ok" /\ last.flag)
    => \A t \in StoredUsers :
          LET r == CanAccessUserFrom(cache, last.a, t)
              home == users[last.a].structureId
              s == FindUserAccessibleStructures(cache, last.a, home) IN
          r.outcome # "NotFound"
          => (r.flag <=> (/\ home # Null
                          /\ users[t].structureId # Null
                          /\ s.ok
                          /\ HasAccess(s.val, users[t].structureId)))

\* C15: a read of the structures service (findOne, findDescendants,
\* findAncestors, findUserAccessibleStructures and, through it,
\* canAccessUser) never ends in the error of a failed cache get or set.
C15_ReadSurvivesCacheFailure ==
    last.op \in {"findOne", "findDescendants", "findAncestors",
                 "findUserAccessibleStructures"}
    => last.outcome # "CacheError"

\* C16: a create, update or remove whose store write is committed completes
\* for the caller even if the cache deletion after the write fails.
C16_WriteSurvivesCacheFailure ==
    last.op \in {"create", "update", "remove"}
    => last.outcome \in {"ok", "NotFound"}

\* C17: whenever no update call is in flight, that is after every
\* interleaving of concurrent update calls that reassign parentId has
\* completed, the stored parent relation has no cycle.
C17_AcyclicAfterConcurrentUpdates ==
    AllIdle => \A x \in Stored : x \notin Up(structures, x)

\* C18: once every write has finished its cache deletion and every read has
\* returned, a forest cached under all_structures is the forest of the
\* store, so that no later findAll returns a value from before a write.
C18_NoStaleForest ==
    (AllIdle /\ CacheHas(cache, KAll)) => cache[KAll] = FindTrees

\* C21: create with a parentId that matches no stored structure is rejected
\* with NotFound and stores no new structure.
C21_CreateRejectsUnknownParent ==
    [][(/\ last'.op = "create"
        /\ last'.b # Null
        /\ last'.b \notin Stored)
       => (last'.outcome = "NotFound" /\ structures' = structures)]_vars

FindAllOps == {"findAllUsers", "findAllUsersAdminAware"}

\* C23: findAll for a non-admin user with a home structure returns exactly
\* the stored users whose structureId is in the set that
\* findUserAccessibleStructures returns for that user.
C23_FindAllExact ==
    (/\ last.op \in FindAllOps
     /\ last.outcome = "ok"
     /\ users[last.a].role # "admin"
     /\ users[last.a].structureId # Null)
    => LET r == FindUserAccessibleStructures(cache, last.a, LastHome) IN
       /\ r.ok
       /\ last.set = {u \in StoredUsers : users[u].structureId \in r.val}

\* C23 witness: a findAll that returned while a stored user with a home
\* structure is outside the accessible set and is left out.
C23_Witness ==
    /\ last.op \in FindAllOps
    /\ last.outcome = "ok"
    /\ users[last.a].role # "admin"
    /\ users[last.a].structureId # Null
    /\ \E v \in StoredUsers \ last.set : users[v].structureId # Null

\* C24: findAll fails with Forbidden, and returns no user, whenever the
\* current user is stored and has no structureId.
C24_ForbiddenWithoutStructure ==
    (/\ last.op \in FindAllOps
     /\ last.a \in StoredUsers
     /\ users[last.a].structureId = Null)
    => (last.outcome = "Forbidden" /\ last.set = {})

\* C26: after remove(id) of the caching UsersService has completed, findOne(id)
\* fails with NotFound and none of the keys user_<id>, user_email_<email>
\* and users_accessible_<id> of the removed user is left in the cache.
C26_RemovedUserLeavesNoEntry ==
    (last.op = "removeUserCached" /\ last.outcome = "ok")
    => /\ ~FindOneUser(cache, last.a).ok
       /\ ~CacheHas(cache, KUser(last.a))
       /\ ~CacheHas(cache, KUserEmail(last.b))
       /\ ~CacheHas(cache, KUsersAccessible(last.a))

\* C27: after update has changed a user's email from e1 to e2, findByEmail(e1)
\* does not return that user.
C27_OldEmailForgotten ==
    (last.op = "updateUserEmailCached" /\ last.outcome = "ok" /\ last.flag)
    => \A e1 \in last.set :
          LET r == FindByEmail(cache, e1) IN r.ok => r.val[1] # last.a

\* C28: every user x other than the requester y that findAll(y) returns is
\* stored and has its present home in y's accessible set: a user that was
\* removed, or re-homed outside that set, is not returned.
C28_FindAllForgetsLeavers ==
    (last.op = "findAllUsersCached" /\ last.outcome = "ok"
     /\ last.a \in StoredUsers)
    => \A p \in last.set :
          p[1] # last.a
          => /\ p[1] \in StoredUsers
             /\ LET r == FindUserAccessibleStructures(cache, last.a, LastHome) IN
                r.ok /\ users[p[1]].structureId \in r.val

\* C29: after a create, update or remove has completed with no other call
\* in flight, there is no all_structures entry, and the next findAll misses
\* the cache and returns the forest of the store as the write left it.
C29_WriteClearsForest ==
    (last.op \in {"create", "update", "remove"} /\ last.outcome = "ok")
    => /\ ~CacheHas(cache, KAll)
       /\ LET r == FindAllFrom(cache) IN ~r.hit /\ r.val = FindTrees

\* C29 witness: an update that gave a stored structure a parent has
\* completed and no all_structures entry is left.
C29_Witness ==
    /\ last.op = "update" /\ last.outcome = "ok"
    /\ last.b \in Stored
    /\ ~CacheHas(cache, KAll)

\* C30: a PUT /users/:id of a requester whose role is not admin changes the
\* role and the structureId of no user and changes no user other than the
\* requester: it leaves the modelled columns of every user as they were.
C30_NonAdminChangesNothing ==
    [][(/\ last'.op = "controllerUpdate"
        /\ last'.a \in StoredUsers
        /\ users[last'.a].role # "admin")
       => users' = users]_vars

====
